---- MODULE Spec2Model ----
(***************************************************************************)
(* A model of the image-combiner crate (src/src/lib.rs): the dimension     *)
(* inferencer (find_optical_dimension), the table layout engine            *)
(* (TableBase / Table / TableCell), and the grid compositor with its       *)
(* spawned resize and compose tasks (resize_images, draw_bundled_image)    *)
(* as driven by the Processor pipelines.                                   *)
(*                                                                         *)
(* Pixel lengths that the code keeps in f32 are kept here as exact         *)
(* integers in units of 1/Scale pixel: every factor the code multiplies    *)
(* by (0.05, 0.03, 0.75, 0.25, 0.5) is a multiple of 1/Scale on the        *)
(* integer widths it is applied to.                                        *)
(***************************************************************************)
EXTENDS Integers, Naturals, Sequences, FiniteSets, TLC

VARIABLES
    \* ---- find_optical_dimension --------------------------------------
    origin_images,      \* the decoded images handed to the inferencer
    fod,                \* outcome of find_optical_dimension
    scan,               \* a long batch scanned image by image: true counts, position
    \* ---- canvas sizing -----------------------------------------------
    sizing_in,          \* image count, options and member size
    sizing_out,         \* the bundled canvas computed from them
    \* ---- table layout engine -----------------------------------------
    head, body, border_width,   \* arguments of TableBase::new
    table_base,         \* result of TableBase::new
    origin_image,       \* the image handed to add_table
    rendered,           \* outcome of create_table_image
    appended,           \* outcome of add_table
    \* ---- grid pipeline -----------------------------------------------
    kind,               \* which Processor entry point runs
    buffers,            \* the input buffers (decodable or not)
    options,            \* CreateBundledImageOptions
    text,               \* the caption (with_text)
    table_spec,         \* the TableSpec (with_table, add_table)
    overlay,            \* the table drawn above the images
    pc,                 \* position of the orchestrating call
    images,             \* images after load / resize
    resize_handles,     \* state of each spawned resize task
    handles,            \* state of each spawned compose task
    joined,             \* number of handles awaited in the current phase
    geometry,           \* canvas geometry computed by the pipeline
    lock,               \* holder of the canvas Mutex
    image_buf,          \* the shared canvas
    result              \* what the orchestrating call returned

dimVars    == <<origin_images, fod, scan>>
sizingVars == <<sizing_in, sizing_out>>
tableVars  == <<head, body, border_width, table_base, origin_image, rendered, appended>>
gridVars   == <<kind, buffers, options, text, table_spec, overlay, pc, images, resize_handles, handles,
                joined, geometry, lock, image_buf, result>>
vars       == <<dimVars, sizingVars, tableVars, gridVars>>

(***************************************************************************)
(* Generic helpers                                                         *)
(***************************************************************************)
Max(a, b) == IF a >= b THEN a ELSE b

Range(s) == {s[i] : i \in DOMAIN s}

\* ceiling of a / b for a >= 0, b > 0
CeilDiv(a, b) == (a + b - 1) \div b

\* all sequences over S of length 0..n
SeqsUpTo(S, n) == UNION {[1..k -> S] : k \in 0..n}

\* the width of the u8 frequency counter (wrapping in the release build);
\* the u32 quantities of the model stay far below 2^32
U8 == 2^8

\* lengths are kept in units of 1/Scale pixel
Scale == 4 * 1000

\* f32 .ceil() as u32 of a length
CeilPx(x) == CeilDiv(x, Scale)

\* f32 as u32 (truncation) of a length
TruncPx(x) == x \div Scale

(***************************************************************************)
(* find_optical_dimension                                                  *)
(***************************************************************************)
MaxDimImages == 5

DimSizes == {<<100, 100>>, <<200, 200>>, <<300, 300>>, <<350, 250>>}

FodInit ==
    [dimension_map |-> << >>, max_dimension |-> <<0, 0>>, max_count |-> 0,
     most_frequent_dimension |-> <<0, 0>>]

\* the count check of the mutant: a tie replaces the tracked pair
CountBeatsGE(count, max_count) == count >= max_count

\* `if *count > max_count`
CountBeats(count, max_count) == count > max_count

\* one iteration of the scan loop over origin_images
FodStep(st, im) ==
    LET dimension_sum == im[1] + im[2]
        md == IF dimension_sum > st.max_dimension[1] + st.max_dimension[2]
              THEN im ELSE st.max_dimension
        old == IF im \in DOMAIN st.dimension_map THEN st.dimension_map[im] ELSE 0
        count == (old + 1) % U8
        map == [k \in DOMAIN st.dimension_map \cup {im} |->
                  IF k = im THEN count ELSE st.dimension_map[k]]
        beats == CountBeats(count, st.max_count)
    IN [dimension_map |-> map,
        max_dimension |-> md,
        max_count |-> IF beats THEN count ELSE st.max_count,
        most_frequent_dimension |-> IF beats THEN im ELSE st.most_frequent_dimension]

RECURSIVE FodScan(_, _)
FodScan(st, ims) ==
    IF ims = << >> THEN st ELSE FodScan(FodStep(st, Head(ims)), Tail(ims))

\* the decision of the mutant: always the most frequent pair
FodDecideFrequent(st) == st.most_frequent_dimension

\* `if max_count == 1 { max_dimension } else { most_frequent_dimension }`
FodDecide(st) ==
    IF st.max_count = 1 THEN st.max_dimension ELSE st.most_frequent_dimension

find_optical_dimension(ims) == FodDecide(FodScan(FodInit, ims))

\* no long batch is being scanned
NoScan == [seen |-> << >>, status |-> "idle"]

DimIdle ==
    /\ origin_images = << >>
    /\ fod = [called |-> FALSE, st |-> FodInit, dimension |-> <<0, 0>>]
    /\ scan = NoScan

DimInit ==
    /\ origin_images \in SeqsUpTo(DimSizes, MaxDimImages)
    /\ fod = [called |-> FALSE, st |-> FodInit, dimension |-> <<0, 0>>]
    /\ scan = NoScan

FindOpticalDimension ==
    /\ ~fod.called
    /\ fod' = [called |-> TRUE,
               st |-> FodScan(FodInit, origin_images),
               dimension |-> find_optical_dimension(origin_images)]
    /\ UNCHANGED <<origin_images, scan, sizingVars, tableVars, gridVars>>

\* the sizes of the images of a long batch
ScanSizes == {<<100, 100>>, <<200, 200>>}

\* a long batch holds at most this many images of one size: one more than
\* the u8 counter can count
MaxSameSize == U8 + 1

\* `*count += 1` on a u8: at 255 the addition overflows, a panic where
\* overflow checks are compiled in and a wrap-around to 0 elsewhere
count_overflows(st, im) ==
    im \in DOMAIN st.dimension_map /\ st.dimension_map[im] = U8 - 1

\* a long batch is handed to find_optical_dimension, which scans it image by
\* image; of the batch only the number of images of each size is kept
ScanInit ==
    /\ origin_images = << >>
    /\ fod = [called |-> FALSE, st |-> FodInit, dimension |-> <<0, 0>>]
    /\ scan = [seen |-> [d \in ScanSizes |-> 0], status |-> "scanning"]

\* one iteration of `for origin_image in origin_images`
ScanImage ==
    /\ scan.status = "scanning"
    /\ \E im \in ScanSizes :
          /\ scan.seen[im] < MaxSameSize
          /\ \E overflow_checks \in (IF count_overflows(fod.st, im) THEN BOOLEAN
                                     ELSE {FALSE}) :
                IF overflow_checks
                THEN /\ scan' = [seen |-> [scan.seen EXCEPT ![im] = @ + 1],
                                 status |-> "overflow"]
                     /\ fod' = fod
                ELSE /\ scan' = [scan EXCEPT !.seen[im] = @ + 1]
                     /\ fod' = [fod EXCEPT !.st = FodStep(fod.st, im)]
    /\ UNCHANGED <<origin_images, sizingVars, tableVars, gridVars>>

\* the batch is exhausted: the pair is decided and returned
ScanReturn ==
    /\ scan.status = "scanning"
    /\ scan' = [scan EXCEPT !.status = "returned"]
    /\ fod' = [fod EXCEPT !.called = TRUE, !.dimension = FodDecide(fod.st)]
    /\ UNCHANGED <<origin_images, sizingVars, tableVars, gridVars>>

(***************************************************************************)
(* Canvas sizing of the bundle pipelines                                   *)
(***************************************************************************)
MaxSizingImages == 6
MaxSizingColumn == 3

SizingPaddings == {0, 20}

SizingSizes == {<<100, 150>>, <<1, 1>>, <<0, 0>>}

\* the row count of the mutant: integer division, no rounding up
RowsFloor(n, column) == n \div column

\* `(resize_images.len() as f32 / options.column as f32).ceil() as u32`,
\* for a column count >= 1 (GridOptions) and counts f32 holds exactly
Rows(n, column) == CeilDiv(n, column)

\* the geometry every bundle pipeline computes after resizing
BundledGeometry(n, column, padding, width, height) ==
    LET row == Rows(n, column)
        canvas_height == IF row >= 1 THEN height + padding ELSE height
        canvas_width == IF column >= 1 THEN width + padding ELSE width
    IN [row |-> row,
        canvas_width |-> canvas_width,
        canvas_height |-> canvas_height,
        bundled_image_canvas_width |-> column * canvas_width,
        bundled_image_canvas_height |-> row * canvas_height]

NoGeometry ==
    [row |-> 0, canvas_width |-> 0, canvas_height |-> 0,
     bundled_image_canvas_width |-> 0, bundled_image_canvas_height |-> 0]

SizingIdle ==
    /\ sizing_in = [n |-> 0, column |-> 1, padding |-> 0, width |-> 0, height |-> 0]
    /\ sizing_out = [called |-> FALSE, g |-> NoGeometry]

SizingInit ==
    /\ sizing_in \in [n : 0..MaxSizingImages, column : 1..MaxSizingColumn,
                      padding : SizingPaddings,
                      width : {d[1] : d \in SizingSizes},
                      height : {d[2] : d \in SizingSizes}]
    /\ <<sizing_in.width, sizing_in.height>> \in SizingSizes
    /\ sizing_out = [called |-> FALSE, g |-> NoGeometry]

ComputeGeometry ==
    /\ ~sizing_out.called
    /\ sizing_out' = [called |-> TRUE,
                      g |-> BundledGeometry(sizing_in.n, sizing_in.column,
                                            sizing_in.padding, sizing_in.width,
                                            sizing_in.height)]
    /\ UNCHANGED <<sizing_in, dimVars, tableVars, gridVars>>

(***************************************************************************)
(* Table layout engine                                                     *)
(***************************************************************************)
MaxCols == 2
MaxRows == 2
MaxBorder == 1

\* strings are sequences of code points: "a" and "a", U+3042, "b"
Texts == {<<97>>, <<97, 12354, 98>>}

\* the images handed to add_table: decoded width and height, or undecodable
TableImages ==
    {[ok |-> TRUE, w |-> 960, h |-> 300], [ok |-> TRUE, w |-> 300, h |-> 960],
     [ok |-> TRUE, w |-> 2, h |-> 2], [ok |-> FALSE, w |-> 0, h |-> 0]}

is_ascii(c) == c < 128

\* the f64 fold of calc_chars_len, in halves: 0.5 per ASCII char, 1.0 otherwise
RECURSIVE CharsHalves(_)
CharsHalves(s) ==
    IF s = << >> THEN 0
    ELSE (IF is_ascii(Head(s)) THEN 1 ELSE 2) + CharsHalves(Tail(s))

\* `s.chars().fold(0.0, ...) as usize`: the cast truncates
calc_chars_len(s) == CharsHalves(s) \div 2

\* the row check of the mutant: only rows shorter than the head are refused
RowMismatchShorter(row, h) == Len(row) < Len(h)

\* `if row.len() != head.len()`
RowMismatch(row, h) == Len(row) # Len(h)

NoTableBase ==
    [status |-> "none", head |-> << >>, body |-> << >>, border_width |-> 0]

\* TableBase::new
TableBase_new(h, b, bw) ==
    IF \E r \in DOMAIN b : RowMismatch(b[r], h)
    THEN [status |-> "InvalidTableError", head |-> << >>, body |-> << >>,
          border_width |-> 0]
    ELSE [status |-> "Ok", head |-> h, body |-> b, border_width |-> bw]

\* TableCell::new
TableCell_new(width, height, s, font_size) ==
    [width |-> width, height |-> height, text |-> s,
     text_len |-> calc_chars_len(s) * font_size]

\* the fold of TableBase::build over the body rows of column i
RECURSIVE LongestColumnLen(_, _, _, _)
LongestColumnLen(acc, b, body_row_index, i) ==
    IF body_row_index > Len(b) THEN acc
    ELSE LET body_row_len == calc_chars_len(b[body_row_index][i])
         IN LongestColumnLen(IF body_row_len > acc THEN body_row_len ELSE acc,
                             b, body_row_index + 1, i)

\* TableBase::build
build(tb, cell_padding_x, cell_padding_y, cell_font_size) ==
    LET bw == tb.border_width * Scale
        cell_height == cell_padding_y * 2 + cell_font_size + bw
        hd == [i \in DOMAIN tb.head |->
                 LET longest_column_len ==
                         LongestColumnLen(calc_chars_len(tb.head[i]), tb.body, 1, i)
                     text_len == cell_font_size * longest_column_len
                     width == cell_padding_x * 2 + bw + text_len
                 IN TableCell_new(width, cell_height, tb.head[i], cell_font_size)]
        bd == [r \in DOMAIN tb.body |->
                 [j \in DOMAIN tb.body[r] |->
                    TableCell_new(hd[j].width, cell_height, tb.body[r][j],
                                  cell_font_size)]]
    IN [head |-> hd, body |-> bd, border_width |-> tb.border_width]

NoTable == [head |-> << >>, body |-> << >>, border_width |-> 0]

RECURSIVE SumWidth(_)
SumWidth(cells) ==
    IF cells = << >> THEN 0 ELSE Head(cells).width + SumWidth(Tail(cells))

\* Table::table_width
table_width(t) == t.border_width * Scale + SumWidth(t.head)

\* Table::table_height indexes head[0] and r[0]: it panics on an empty head
table_height_panics(t) == Len(t.head) = 0

RECURSIVE SumRowHeight(_)
SumRowHeight(rows) ==
    IF rows = << >> THEN 0 ELSE Head(rows)[1].height + SumRowHeight(Tail(rows))

\* Table::table_height, where it does not panic
table_height(t) ==
    LET body_height == t.border_width * Scale + SumRowHeight(t.body)
    IN t.head[1].height + body_height

\* `width as f32 * 0.05`
Padding(width) == (width * Scale) \div 20

\* `(width as f32 - padding * 2.0) * 0.03`
FontSize(width) == ((width * Scale - Padding(width) * 2) * 3) \div 100

\* `font_size * 0.75`
CellPaddingX(font_size) == (font_size * 3) \div 4

\* `font_size * 0.25`
CellPaddingY(font_size) == font_size \div 4

\* the top of the mutant: the body rows start at the head row's top
BodyCellTopFromHead(padding, row, i) == padding + i * row[1].height

\* `padding + row[0].height + i as f32 * row[0].height`, i counted from 0
BodyCellTop(padding, row, i) == padding + row[1].height + i * row[1].height

\* the loop over one row of cells: a (top, left, text) tuple per cell, the
\* text centred in its cell, `current_cell_x += cell.width`
RECURSIVE RowTexts(_, _, _)
RowTexts(cells, current_cell_x, text_top) ==
    IF cells = << >> THEN << >>
    ELSE LET cell == Head(cells)
             text_left == current_cell_x + cell.width \div 2 - cell.text_len \div 2
         IN <<<<text_top, text_left, cell.text>>>>
                \o RowTexts(Tail(cells), current_cell_x + cell.width, text_top)

\* the loop over the body rows from row i (counted from 0) on
RECURSIVE BodyTexts(_, _, _, _, _)
BodyTexts(t, i, padding, full_canvas_width, cell_padding_y) ==
    IF i >= Len(t.body) THEN << >>
    ELSE LET row == t.body[i + 1]
             body_cell_top == BodyCellTop(padding, row, i)
             body_text_top == body_cell_top + cell_padding_y + t.border_width * Scale
             current_cell_x == full_canvas_width \div 2 - table_width(t) \div 2
         IN RowTexts(row, current_cell_x, body_text_top)
                \o BodyTexts(t, i + 1, padding, full_canvas_width, cell_padding_y)

\* Table::text_top_left_position
text_top_left_position(t, padding, full_canvas_width, cell_padding_y) ==
    LET head_text_top == padding + cell_padding_y + t.border_width * Scale
        current_cell_x == full_canvas_width \div 2 - table_width(t) \div 2
    IN RowTexts(t.head, current_cell_x, head_text_top)
           \o BodyTexts(t, 0, padding, full_canvas_width, cell_padding_y)

\* the table a pipeline builds for a canvas of the given width
BuildFor(tb, width) ==
    LET font_size == FontSize(width)
    IN build(tb, CellPaddingX(font_size), CellPaddingY(font_size), font_size)

\* `let canvas_width = 960u32` of create_table_image
TableCanvasWidth == 960

NoOutcome ==
    [status |-> "none", built |-> FALSE, table |-> NoTable,
     canvas_width |-> 0, canvas_height |-> 0, texts |-> << >>, lines |-> << >>]

\* a call that ends before its canvas exists: an Err(..) or a panic
Failed(status, built, table) ==
    [status |-> status, built |-> built, table |-> table,
     canvas_width |-> 0, canvas_height |-> 0, texts |-> << >>, lines |-> << >>]

\* the concatenation of a sequence of sequences
RECURSIVE Flatten(_)
Flatten(ss) == IF ss = << >> THEN << >> ELSE Head(ss) \o Flatten(Tail(ss))

\* `(self.border_width - 1)` on a u32: at border 0 the subtraction overflows,
\* a panic where overflow checks are compiled in and a wrap-around elsewhere
line_position_overflows(t) == t.border_width = 0

\* the builds a call has to be followed in: with and without overflow checks
\* where the subtraction overflows, a single one where the outcome is the same
OverflowChecks(tb) == IF tb.border_width = 0 THEN BOOLEAN ELSE {FALSE}

\* Table::table_line_position: the segments ((x, y), (x, y)) in push order.
\* Every loop runs `for border_shift in 0..self.border_width`, so the wrapped
\* value of `self.border_width - 1` at border 0 reaches no segment.
table_line_position(t, padding, full_canvas_width) ==
    LET shifts == [s \in 1..t.border_width |-> (s - 1) * Scale]
        border_less_one == (t.border_width - 1) * Scale
        row_line_end_x ==
            border_less_one + full_canvas_width \div 2 + table_width(t) \div 2
        row_line_start_x == full_canvas_width \div 2 - table_width(t) \div 2
        column_line_start_y == padding
        column_line_end_y == border_less_one + padding + table_height(t)
        top_bottom ==
            [s \in DOMAIN shifts |->
               <<<<<<row_line_start_x, shifts[s] + padding>>,
                   <<row_line_end_x, shifts[s] + padding>>>>,
                 <<<<row_line_start_x, shifts[s] + padding + table_height(t)>>,
                   <<row_line_end_x, shifts[s] + padding + table_height(t)>>>>>>]
        columns ==
            [s \in DOMAIN shifts |->
               [k \in DOMAIN t.head |->
                  LET current_column_line_x ==
                          shifts[s] + row_line_start_x
                              + SumWidth(SubSeq(t.head, 1, k - 1))
                  IN <<<<current_column_line_x, column_line_start_y>>,
                       <<current_column_line_x, column_line_end_y>>>>]]
        body_rows ==
            [s \in DOMAIN shifts |->
               [i \in DOMAIN t.body |->
                  LET row_line_y ==
                          shifts[s] + column_line_start_y + i * t.body[i][1].height
                  IN <<<<row_line_start_x, row_line_y>>,
                       <<row_line_end_x, row_line_y>>>>]]
        right ==
            [s \in DOMAIN shifts |->
               <<<<shifts[s] + row_line_end_x, column_line_start_y>>,
                 <<shifts[s] + row_line_end_x, column_line_end_y>>>>]
    IN Flatten(top_bottom) \o Flatten(columns) \o Flatten(body_rows) \o right

\* the table is drawn on its canvas: the texts at the positions of
\* text_top_left_position, then the lines of table_line_position
DrawTableOn(table, padding, full_canvas_width, cell_padding_y, cw, ch, overflow_checks) ==
    LET drawn == [status |-> "Ok", built |-> TRUE, table |-> table,
                  canvas_width |-> cw, canvas_height |-> ch,
                  texts |-> text_top_left_position(table, padding, full_canvas_width,
                                                   cell_padding_y),
                  lines |-> << >>]
    IN IF line_position_overflows(table) /\ overflow_checks
       THEN [drawn EXCEPT !.status = "overflow"]
       ELSE [drawn EXCEPT !.lines = table_line_position(table, padding,
                                                        full_canvas_width)]

\* the canvas of the mutant: always as wide as the nominal canvas_width
create_table_image_fixed_width(tb, overflow_checks) ==
    LET padding == Padding(TableCanvasWidth)
        table == BuildFor(tb, TableCanvasWidth)
    IN IF table_height_panics(table)
       THEN Failed("panic", TRUE, table)
       ELSE DrawTableOn(table, padding, TableCanvasWidth * Scale,
                        CellPaddingY(FontSize(TableCanvasWidth)),
                        TableCanvasWidth,
                        CeilPx(table_height(table)) + CeilPx(padding) * 2,
                        overflow_checks)

\* Processor::create_table_image
create_table_image(tb, overflow_checks) ==
    LET padding == Padding(TableCanvasWidth)
        table == BuildFor(tb, TableCanvasWidth)
        table_canvas_width == table_width(table) + padding * 2
    IN IF table_height_panics(table)
       THEN Failed("panic", TRUE, table)
       ELSE DrawTableOn(table, padding, CeilPx(table_canvas_width) * Scale,
                        CellPaddingY(FontSize(TableCanvasWidth)),
                        CeilPx(table_canvas_width),
                        CeilPx(table_height(table)) + CeilPx(padding) * 2,
                        overflow_checks)

\* the width of the mutant: the font is sized from the image's height
AddTableBaseWidthFromHeight(im) == im.h

\* add_table sizes padding and font from `origin_image.width()`
AddTableBaseWidth(im) == im.w

\* Processor::add_table
add_table(im, tb, overflow_checks) ==
    IF ~im.ok
    THEN Failed("ImageProcessError", FALSE, NoTable)
    ELSE
    LET padding == Padding(AddTableBaseWidth(im))
        table == BuildFor(tb, AddTableBaseWidth(im))
    IN IF table_width(table) > im.w * Scale
       THEN Failed("InvalidTableError", TRUE, table)
       ELSE IF table_height_panics(table)
       THEN Failed("panic", TRUE, table)
       ELSE DrawTableOn(table, padding, im.w * Scale,
                        CellPaddingY(FontSize(AddTableBaseWidth(im))),
                        im.w,
                        im.h + CeilPx(table_height(table)) + TruncPx(padding) * 2,
                        overflow_checks)

TableIdle ==
    /\ head = << >>
    /\ body = << >>
    /\ border_width = 0
    /\ table_base = NoTableBase
    /\ origin_image = [ok |-> FALSE, w |-> 0, h |-> 0]
    /\ rendered = NoOutcome
    /\ appended = NoOutcome

TableInit ==
    /\ head \in SeqsUpTo(Texts, MaxCols)
    /\ body \in SeqsUpTo(SeqsUpTo(Texts, MaxCols), MaxRows)
    /\ border_width \in 0..MaxBorder
    /\ table_base = NoTableBase
    /\ origin_image \in TableImages
    /\ rendered = NoOutcome
    /\ appended = NoOutcome

\* the caller constructs the TableSpec
NewTableBase ==
    /\ table_base.status = "none"
    /\ table_base' = TableBase_new(head, body, border_width)
    /\ UNCHANGED <<head, body, border_width, origin_image, rendered, appended,
                   dimVars, sizingVars, gridVars>>

\* the caller renders the accepted TableSpec on its own
CreateTableImage ==
    /\ table_base.status = "Ok"
    /\ rendered.status = "none"
    /\ \E overflow_checks \in OverflowChecks(table_base) :
          rendered' = create_table_image(table_base, overflow_checks)
    /\ UNCHANGED <<head, body, border_width, table_base, origin_image, appended,
                   dimVars, sizingVars, gridVars>>

\* the caller appends the accepted TableSpec above origin_image
AddTable ==
    /\ table_base.status = "Ok"
    /\ appended.status = "none"
    /\ \E overflow_checks \in OverflowChecks(table_base) :
          appended' = add_table(origin_image, table_base, overflow_checks)
    /\ UNCHANGED <<head, body, border_width, table_base, origin_image, rendered,
                   dimVars, sizingVars, gridVars>>

(***************************************************************************)
(* Grid compositor and the bundle pipelines                                *)
(***************************************************************************)
MaxImages == 3

GridSizes == {<<1, 1>>, <<2, 1>>, <<1, 2>>}

\* an input buffer decodes to an image of some size, or does not decode
GridBuffers ==
    {[ok |-> TRUE, w |-> d[1], h |-> d[2]] : d \in GridSizes}
        \cup {[ok |-> FALSE, w |-> 0, h |-> 0]}

GridOptions ==
    [dimension : {[some |-> FALSE, w |-> 0, h |-> 0], [some |-> TRUE, w |-> 1, h |-> 1],
                  [some |-> TRUE, w |-> 1, h |-> 3]},
     padding : {0, 1},
     column : {1, 2}]

\* the buffers handed to add_table: a wide image, a narrow one, an undecodable one
AppendBuffers ==
    {[ok |-> TRUE, w |-> 4, h |-> 1], [ok |-> TRUE, w |-> 2, h |-> 1],
     [ok |-> FALSE, w |-> 0, h |-> 0]}

\* the accepted TableSpecs handed to the pipelines: "a" alone, and "a" above a
\* text of three characters, the middle one not ASCII
GridTables ==
    {TableBase_new(<<<<97>>>>, << >>, 1),
     TableBase_new(<<<<97>>>>, <<<<<<97, 12354, 98>>>>>>, 1)}

\* n copies of the code point c
Rep(c, n) == [i \in 1..n |-> c]

Captions == {Rep(97, 1), Rep(97, 67), Rep(97, 75), Rep(12354, 38)}

\* pixel values of the canvas: WHITE_COLOR, the ink of draw_text_mut, and
\* k >= 1 for a pixel copied from image k
White == 0
Ink == 0 - 1

\* lock holders: nobody, or compose task k >= 1
Free == 0

\* load_images_from_vec fails on the first buffer that does not decode
load_fails(bufs) == \E i \in DOMAIN bufs : ~bufs[i].ok

load_images_from_vec(bufs) == [i \in DOMAIN bufs |-> <<bufs[i].w, bufs[i].h>>]

\* round-half-away-from-zero of a / b (f64 .round()), a >= 0, b > 0
RoundDiv(a, b) == (2 * a + b) \div (2 * b)

\* the resize of the mutant: resize_exact, which ignores the aspect ratio
resize_exact(im, nwidth, nheight) == <<nwidth, nheight>>

\* DynamicImage::resize(nwidth, nheight, filter): the image is scaled, keeping
\* its aspect ratio, to the largest size that fits within nwidth x nheight
resize(im, nwidth, nheight) ==
    IF nwidth * im[2] <= nheight * im[1]
    THEN <<Max(RoundDiv(im[1] * nwidth, im[1]), 1), Max(RoundDiv(im[2] * nwidth, im[1]), 1)>>
    ELSE <<Max(RoundDiv(im[1] * nheight, im[2]), 1), Max(RoundDiv(im[2] * nheight, im[2]), 1)>>

\* the body of one task spawned by resize_images
resize_task(im, target_image_width, target_image_height) ==
    IF im[2] # target_image_height
    THEN resize(im, target_image_width, target_image_height)
    ELSE im

\* `match options.dimension { Some(d) => d, None => find_optical_dimension(..) }`
TargetDimension(opts, ims) ==
    IF opts.dimension.some THEN <<opts.dimension.w, opts.dimension.h>>
    ELSE find_optical_dimension(ims)

NoResult == [status |-> "none", bytes |-> << >>]

Err(e) == [status |-> e, bytes |-> << >>]

\* ImageBuffer::from_fn(width, height, |_, _| WHITE_COLOR)
BlankCanvas(width, height) ==
    [p \in (0..(width - 1)) \X (0..(height - 1)) |-> White]

\* the pad of the mutant: the image is never shifted down
VerticalPadNone(im, image_height) == 0

\* `buf = (image_height - image.height()) / 2` when the image is not taller
VerticalPad(im, image_height) ==
    IF im[2] <= image_height THEN (image_height - im[2]) \div 2 ELSE 0

\* the origin of the mutant: the strip's height is not added
PasteOriginNoOffset(i, im, g, column) ==
    LET current_column == (i - 1) % column
        current_row == (i - 1) \div column
    IN <<current_column * g.canvas_width,
         current_row * g.canvas_height + VerticalPad(im, g.height)>>

\* where compose task i (1-based here, i - 1 in the code) pastes its image
PasteOrigin(i, im, g, column) ==
    LET current_column == (i - 1) % column
        current_row == (i - 1) \div column
    IN <<current_column * g.canvas_width,
         current_row * g.canvas_height + VerticalPad(im, g.height) + g.y>>

\* the canvas rectangle a paste covers
PasteRect(i, im, g, column) ==
    LET o == PasteOrigin(i, im, g, column)
    IN (o[1]..(o[1] + im[1] - 1)) \X (o[2]..(o[2] + im[2] - 1))

\* GenericImage::copy_from refuses an image that does not fit at (x, y)
copy_fits(im, o, g) ==
    /\ g.bundled_image_canvas_width >= im[1] + o[1]
    /\ g.full_canvas_height >= im[2] + o[2]

\* the pixels after a successful copy_from of image i
copy_from(buf, i, rect) == [p \in DOMAIN buf |-> IF p \in rect THEN i ELSE buf[p]]

NoGridGeometry ==
    [width |-> 0, height |-> 0, row |-> 0, canvas_width |-> 0, canvas_height |-> 0,
     bundled_image_canvas_width |-> 0, bundled_image_canvas_height |-> 0,
     y |-> 0, full_canvas_height |-> 0]

\* the geometry of a pipeline: the bundle's, plus the strip reserved above it
PipelineGeometry(n, opts, width, height, strip) ==
    LET b == BundledGeometry(n, opts.column, opts.padding, width, height)
    IN [width |-> width, height |-> height, row |-> b.row,
        canvas_width |-> b.canvas_width, canvas_height |-> b.canvas_height,
        bundled_image_canvas_width |-> b.bundled_image_canvas_width,
        bundled_image_canvas_height |-> b.bundled_image_canvas_height,
        y |-> strip,
        full_canvas_height |-> b.bundled_image_canvas_height + strip]

\* `calc_chars_len(text) as f32 * font_size + padding * 2.0`
text_canvas_width(s, bundled_width) ==
    calc_chars_len(s) * FontSize(bundled_width) + Padding(bundled_width) * 2

\* the check of the mutant: the cast truncates instead of rounding up
TextTooWideTrunc(s, bundled_width) ==
    TruncPx(text_canvas_width(s, bundled_width)) > bundled_width

\* `if text_canvas_width.ceil() as u32 > bundled_image_canvas_width`
TextTooWide(s, bundled_width) ==
    CeilPx(text_canvas_width(s, bundled_width)) > bundled_width

\* `(font_size + padding * 2.0).ceil() as u32`
text_canvas_height(bundled_width) ==
    CeilPx(FontSize(bundled_width) + Padding(bundled_width) * 2)

\* draw_text_mut on the strip sub-image, anchored at (ceil(padding), ceil(padding)):
\* glyph pixels are clipped to the strip; the anchor pixel stands for them
draw_text(buf, s, bundled_width, strip) ==
    LET a == CeilPx(Padding(bundled_width))
    IN [p \in DOMAIN buf |->
          IF s # << >> /\ p = <<a, a>> /\ a < bundled_width /\ a < strip
          THEN Ink ELSE buf[p]]

\* GRAY_COLOR, the colour of the table lines of with_table
Gray == 0 - 2

\* `table.table_height().ceil() as u32 + padding.ceil() as u32 * 2` of with_table
table_canvas_height(table, padding) ==
    CeilPx(table_height(table)) + CeilPx(padding) * 2

\* the check of the mutant: the cast truncates instead of rounding up
TableTooWideTrunc(table, padding, bundled_width) ==
    TruncPx(table_width(table) + padding * 2) > bundled_width

\* `if table_canvas_width.ceil() as u32 > bundled_image_canvas_width`
TableTooWide(table, padding, bundled_width) ==
    CeilPx(table_width(table) + padding * 2) > bundled_width

\* the pixels of an axis-parallel segment of draw_line_segment_mut
LinePixels(seg) ==
    (TruncPx(seg[1][1])..TruncPx(seg[2][1])) \X (TruncPx(seg[1][2])..TruncPx(seg[2][2]))

\* the texts and then the lines of a drawn table, on the strip sub-image at the
\* canvas's top: pixels outside the strip are clipped; the anchor pixel
\* (ceil(left), ceil(top)) stands for the glyphs of a text
draw_table(buf, outcome, strip_width, strip_height, line_color) ==
    LET in_strip(p) == p[1] < strip_width /\ p[2] < strip_height
        anchors == {<<CeilPx(outcome.texts[k][2]), CeilPx(outcome.texts[k][1])>> :
                        k \in {j \in DOMAIN outcome.texts : outcome.texts[j][3] # << >>}}
        line_pixels == UNION {LinePixels(outcome.lines[k]) : k \in DOMAIN outcome.lines}
    IN [p \in DOMAIN buf |->
          IF in_strip(p) /\ p \in line_pixels THEN line_color
          ELSE IF in_strip(p) /\ p \in anchors THEN Ink
          ELSE buf[p]]

\* the await of the mutant: it returns without waiting for the task
HandleFinishedEarly(h) == TRUE

\* `handle.await` returns once the task behind the JoinHandle has finished
HandleFinished(h) == h \in {"ok", "err"}

GridIdle ==
    /\ kind = "none"
    /\ buffers = << >>
    /\ options = [dimension |-> [some |-> FALSE, w |-> 0, h |-> 0],
                  padding |-> 0, column |-> 1]
    /\ text = << >>
    /\ table_spec = NoTableBase
    /\ overlay = NoOutcome
    /\ pc = "idle"
    /\ images = << >>
    /\ resize_handles = << >>
    /\ handles = << >>
    /\ joined = 0
    /\ geometry = NoGridGeometry
    /\ lock = Free
    /\ image_buf = << >>
    /\ result = NoResult

GridInit ==
    /\ kind \in {"bundle", "text", "table", "append"}
    /\ buffers \in (IF kind = "append" THEN [1..1 -> AppendBuffers]
                    ELSE SeqsUpTo(GridBuffers, MaxImages))
    /\ options \in GridOptions
    /\ text \in (IF kind = "text" THEN Captions ELSE {<< >>})
    /\ table_spec \in (IF kind \in {"table", "append"} THEN GridTables
                       ELSE {NoTableBase})
    /\ overlay = NoOutcome
    /\ pc = "start"
    /\ images = << >>
    /\ resize_handles = << >>
    /\ handles = << >>
    /\ joined = 0
    /\ geometry = NoGridGeometry
    /\ lock = Free
    /\ image_buf = << >>
    /\ result = NoResult

\* the pipeline's head: load_images_from_vec fails ...
LoadFails ==
    /\ pc = "start"
    /\ load_fails(buffers)
    /\ pc' = "returned"
    /\ result' = Err("ImageProcessError")
    /\ UNCHANGED <<kind, buffers, options, text, table_spec, overlay, images, resize_handles, handles,
                   joined, geometry, lock, image_buf,
                   dimVars, sizingVars, tableVars>>

\* ... or it succeeds: the target size is fixed and resize_images spawns one
\* task per image
LoadAndSpawnResize ==
    /\ pc = "start"
    /\ kind # "append"
    /\ ~load_fails(buffers)
    /\ LET ims == load_images_from_vec(buffers)
           d == TargetDimension(options, ims)
       IN /\ images' = ims
          /\ geometry' = [NoGridGeometry EXCEPT !.width = d[1], !.height = d[2]]
          /\ resize_handles' = [i \in DOMAIN ims |-> "spawned"]
    /\ joined' = 0
    /\ pc' = "resize_join"
    /\ UNCHANGED <<kind, buffers, options, text, table_spec, overlay, handles, lock, image_buf, result,
                   dimVars, sizingVars, tableVars>>

\* a resize task runs to completion
ResizeTask(i) ==
    /\ i \in DOMAIN resize_handles
    /\ resize_handles[i] = "spawned"
    /\ images' = [images EXCEPT ![i] = resize_task(@, geometry.width, geometry.height)]
    /\ resize_handles' = [resize_handles EXCEPT ![i] = "ok"]
    /\ UNCHANGED <<kind, buffers, options, text, table_spec, overlay, pc, handles, joined, geometry,
                   lock, image_buf, result,
                   dimVars, sizingVars, tableVars>>

\* `for handle in resized_images_handles { resize_images.push(handle.await?) }`
JoinResize ==
    /\ pc = "resize_join"
    /\ joined < Len(resize_handles)
    /\ HandleFinished(resize_handles[joined + 1])
    /\ joined' = joined + 1
    /\ UNCHANGED <<kind, buffers, options, text, table_spec, overlay, pc, images, resize_handles, handles,
                   geometry, lock, image_buf, result,
                   dimVars, sizingVars, tableVars>>

\* the height of the strip reserved above the grid
StripHeight(k, s, tb, bundled_width) ==
    IF k = "text" THEN text_canvas_height(bundled_width)
    ELSE IF k = "table"
    THEN table_canvas_height(BuildFor(tb, bundled_width), Padding(bundled_width))
    ELSE 0

\* with_table: the table is refused before the canvas exists
RefuseTable ==
    /\ pc = "resize_join"
    /\ joined = Len(resize_handles)
    /\ kind = "table"
    /\ LET b == BundledGeometry(Len(images), options.column, options.padding,
                                geometry.width, geometry.height)
           bundled_width == b.bundled_image_canvas_width
       IN /\ TableTooWide(BuildFor(table_spec, bundled_width), Padding(bundled_width),
                          bundled_width)
          /\ geometry' = PipelineGeometry(Len(images), options, geometry.width,
                                          geometry.height, 0)
    /\ pc' = "returned"
    /\ result' = Err("InvalidTableError")
    /\ UNCHANGED <<kind, buffers, options, text, table_spec, overlay, images,
                   resize_handles, handles, joined, lock, image_buf,
                   dimVars, sizingVars, tableVars>>

\* with_text: the caption is refused before the canvas exists
RefuseText ==
    /\ pc = "resize_join"
    /\ joined = Len(resize_handles)
    /\ kind = "text"
    /\ LET b == BundledGeometry(Len(images), options.column, options.padding,
                                geometry.width, geometry.height)
       IN /\ TextTooWide(text, b.bundled_image_canvas_width)
          /\ geometry' = PipelineGeometry(Len(images), options, geometry.width,
                                          geometry.height, 0)
    /\ pc' = "returned"
    /\ result' = Err("InvalidTextError")
    /\ UNCHANGED <<kind, buffers, options, text, table_spec, overlay, images, resize_handles, handles,
                   joined, lock, image_buf,
                   dimVars, sizingVars, tableVars>>

\* the geometry is computed, the canvas allocated, and draw_bundled_image
\* spawns one compose task per image
AllocateAndSpawnCompose ==
    /\ pc = "resize_join"
    /\ joined = Len(resize_handles)
    /\ LET b == BundledGeometry(Len(images), options.column, options.padding,
                                geometry.width, geometry.height)
           bundled_width == b.bundled_image_canvas_width
           strip == StripHeight(kind, text, table_spec, bundled_width)
           g == PipelineGeometry(Len(images), options, geometry.width,
                                 geometry.height, strip)
       IN /\ kind = "text" => ~TextTooWide(text, bundled_width)
          /\ kind = "table" =>
                ~TableTooWide(BuildFor(table_spec, bundled_width),
                              Padding(bundled_width), bundled_width)
          /\ geometry' = g
          /\ image_buf' = BlankCanvas(g.bundled_image_canvas_width, g.full_canvas_height)
    /\ handles' = [i \in DOMAIN images |-> "spawned"]
    /\ joined' = 0
    /\ pc' = "compose_join"
    /\ UNCHANGED <<kind, buffers, options, text, table_spec, overlay, images, resize_handles, lock, result,
                   dimVars, sizingVars, tableVars>>

\* compose task i: `cloned_image_buf.lock().await`
ComposeLock(i) ==
    /\ i \in DOMAIN handles
    /\ handles[i] = "spawned"
    /\ lock = Free
    /\ lock' = i
    /\ handles' = [handles EXCEPT ![i] = "locked"]
    /\ UNCHANGED <<kind, buffers, options, text, table_spec, overlay, pc, images, resize_handles, joined,
                   geometry, image_buf, result,
                   dimVars, sizingVars, tableVars>>

\* compose task i: copy_from under the lock, then the guard is dropped
ComposeCopy(i) ==
    /\ i \in DOMAIN handles
    /\ handles[i] = "locked"
    /\ LET o == PasteOrigin(i, images[i], geometry, options.column)
       IN IF copy_fits(images[i], o, geometry)
          THEN /\ image_buf' = copy_from(image_buf, i,
                                         PasteRect(i, images[i], geometry, options.column))
               /\ handles' = [handles EXCEPT ![i] = "ok"]
          ELSE /\ image_buf' = image_buf
               /\ handles' = [handles EXCEPT ![i] = "err"]
    /\ lock' = Free
    /\ UNCHANGED <<kind, buffers, options, text, table_spec, overlay, pc, images, resize_handles, joined,
                   geometry, result,
                   dimVars, sizingVars, tableVars>>

\* `for handle in handles { handle.await??; }`: the next handle reports Ok
JoinComposeOk ==
    /\ pc = "compose_join"
    /\ joined < Len(handles)
    /\ HandleFinished(handles[joined + 1])
    /\ handles[joined + 1] # "err"
    /\ joined' = joined + 1
    /\ UNCHANGED <<kind, buffers, options, text, table_spec, overlay, pc, images, resize_handles, handles,
                   geometry, lock, image_buf, result,
                   dimVars, sizingVars, tableVars>>

\* ... or it reports the copy's error, which `?` returns at once: the handles
\* not yet awaited are dropped, and their tasks stay detached
JoinComposeErr ==
    /\ pc = "compose_join"
    /\ joined < Len(handles)
    /\ HandleFinished(handles[joined + 1])
    /\ handles[joined + 1] = "err"
    /\ pc' = "returned"
    /\ result' = Err("ImageProcessError")
    /\ UNCHANGED <<kind, buffers, options, text, table_spec, overlay, images, resize_handles, handles,
                   joined, geometry, lock, image_buf,
                   dimVars, sizingVars, tableVars>>

\* draw_bundled_image returns Ok(()) once every handle has been awaited
ComposeReturn ==
    /\ pc = "compose_join"
    /\ joined = Len(handles)
    /\ pc' = IF kind \in {"text", "table"} THEN "overlay" ELSE "encode"
    /\ UNCHANGED <<kind, buffers, options, text, table_spec, overlay, images, resize_handles, handles,
                   joined, geometry, lock, image_buf, result,
                   dimVars, sizingVars, tableVars>>

\* with_text: the caption is drawn into the strip under the lock
DrawText ==
    /\ pc = "overlay"
    /\ kind = "text"
    /\ lock = Free
    /\ image_buf' = draw_text(image_buf, text, geometry.bundled_image_canvas_width,
                              geometry.y)
    /\ pc' = "encode"
    /\ UNCHANGED <<kind, buffers, options, text, table_spec, overlay, images, resize_handles, handles,
                   joined, geometry, lock, result,
                   dimVars, sizingVars, tableVars>>

\* with_table: the table is drawn into the strip under the lock; its border
\* is at least 1 in GridTables, so the overflow of table_line_position and
\* the panic it gives with overflow checks end no call here
DrawTable ==
    /\ pc = "overlay"
    /\ kind = "table"
    /\ lock = Free
    /\ \E overflow_checks \in OverflowChecks(table_spec) :
          LET bundled_width == geometry.bundled_image_canvas_width
              drawn == DrawTableOn(BuildFor(table_spec, bundled_width),
                                   Padding(bundled_width), bundled_width * Scale,
                                   CellPaddingY(FontSize(bundled_width)),
                                   bundled_width, geometry.full_canvas_height,
                                   overflow_checks)
          IN /\ overlay' = drawn
             /\ image_buf' = draw_table(image_buf, drawn, bundled_width, geometry.y, Gray)
             /\ pc' = IF drawn.status = "Ok" THEN "encode" ELSE "returned"
             /\ result' = IF drawn.status = "Ok" THEN result ELSE Err("panic")
    /\ UNCHANGED <<kind, buffers, options, text, table_spec, images, resize_handles,
                   handles, joined, geometry, lock,
                   dimVars, sizingVars, tableVars>>

\* add_table: the table is refused before the canvas exists
AppendRefuse ==
    /\ pc = "start"
    /\ kind = "append"
    /\ ~load_fails(buffers)
    /\ \E overflow_checks \in OverflowChecks(table_spec) :
          add_table(buffers[1], table_spec, overflow_checks).status = "InvalidTableError"
    /\ images' = load_images_from_vec(buffers)
    /\ pc' = "returned"
    /\ result' = Err("InvalidTableError")
    /\ UNCHANGED <<kind, buffers, options, text, table_spec, overlay, resize_handles,
                   handles, joined, geometry, lock, image_buf,
                   dimVars, sizingVars, tableVars>>

\* add_table: the canvas is allocated, the table drawn on its top strip and
\* the origin image copied below it
AppendTable ==
    /\ pc = "start"
    /\ kind = "append"
    /\ ~load_fails(buffers)
    /\ \E overflow_checks \in OverflowChecks(table_spec) :
          LET im == buffers[1]
              drawn == add_table(im, table_spec, overflow_checks)
              strip == drawn.canvas_height - im.h
              g == [NoGridGeometry EXCEPT
                       !.width = im.w, !.height = im.h, !.row = 1,
                       !.canvas_width = im.w, !.canvas_height = im.h,
                       !.bundled_image_canvas_width = im.w,
                       !.bundled_image_canvas_height = im.h,
                       !.y = strip, !.full_canvas_height = drawn.canvas_height]
          IN /\ drawn.status = "Ok"
             /\ overlay' = drawn
             /\ geometry' = g
             /\ image_buf' =
                    copy_from(draw_table(BlankCanvas(im.w, drawn.canvas_height),
                                         drawn, im.w, strip, Ink),
                              1, (0..(im.w - 1)) \X (strip..(strip + im.h - 1)))
    /\ images' = load_images_from_vec(buffers)
    /\ pc' = "encode"
    /\ UNCHANGED <<kind, buffers, options, text, table_spec, resize_handles,
                   handles, joined, lock, result,
                   dimVars, sizingVars, tableVars>>

\* `image_buf_threaded.lock_owned().await.to_owned()` and the JPEG encode
Encode ==
    /\ pc = "encode"
    /\ lock = Free
    /\ result' = [status |-> "Ok", bytes |-> image_buf]
    /\ pc' = "returned"
    /\ UNCHANGED <<kind, buffers, options, text, table_spec, overlay, images, resize_handles, handles,
                   joined, geometry, lock, image_buf,
                   dimVars, sizingVars, tableVars>>

(***************************************************************************)
(* Specifications                                                          *)
(***************************************************************************)
\* the dimension inferencer applied to every bounded batch of sizes
InitDim == DimInit /\ SizingIdle /\ TableIdle /\ GridIdle

NextDim == FindOpticalDimension

SpecDim == InitDim /\ [][NextDim]_vars

\* the dimension inferencer scanning batches of up to MaxSameSize images of
\* each of two sizes
InitScan == ScanInit /\ SizingIdle /\ TableIdle /\ GridIdle

NextScan ==
    \/ ScanImage
    \/ ScanReturn

SpecScan == InitScan /\ [][NextScan]_vars

\* the canvas sizing applied to every bounded count, option set and size
InitSizing == DimIdle /\ SizingInit /\ TableIdle /\ GridIdle

NextSizing == ComputeGeometry

SpecSizing == InitSizing /\ [][NextSizing]_vars

\* the table layout engine and the two table-only pipelines
InitTable == DimIdle /\ SizingIdle /\ TableInit /\ GridIdle

NextTable ==
    \/ NewTableBase
    \/ CreateTableImage
    \/ AddTable

SpecTable == InitTable /\ [][NextTable]_vars

\* the bundle pipelines with their spawned tasks
Init == DimIdle /\ SizingIdle /\ TableIdle /\ GridInit

Next ==
    \/ LoadFails
    \/ LoadAndSpawnResize
    \/ \E i \in 1..MaxImages : ResizeTask(i)
    \/ JoinResize
    \/ RefuseText
    \/ RefuseTable
    \/ AllocateAndSpawnCompose
    \/ \E i \in 1..MaxImages : ComposeLock(i)
    \/ \E i \in 1..MaxImages : ComposeCopy(i)
    \/ JoinComposeOk
    \/ JoinComposeErr
    \/ ComposeReturn
    \/ DrawText
    \/ DrawTable
    \/ AppendRefuse
    \/ AppendTable
    \/ Encode

Spec == Init /\ [][Next]_vars

(***************************************************************************)
(* Properties                                                              *)
(***************************************************************************)
\* number of occurrences of p in the sequence
Count(p, seq) == Cardinality({i \in DOMAIN seq : seq[i] = p})

\* the highest frequency count of a batch (0 for the empty batch)
HighestCount(seq) ==
    IF seq = << >> THEN 0
    ELSE CHOOSE c \in 1..Len(seq) :
            /\ \E p \in Range(seq) : Count(p, seq) = c
            /\ \A p \in Range(seq) : Count(p, seq) <= c

\* the pairs that share the highest frequency count
MostFrequent(seq) == {p \in Range(seq) : Count(p, seq) = HighestCount(seq)}

\* index of the first occurrence of p
FirstIndex(p, seq) == CHOOSE i \in DOMAIN seq :
    seq[i] = p /\ \A j \in 1..(i - 1) : seq[j] # p

\* index of the k-th occurrence of p
KthIndex(p, seq, k) == CHOOSE i \in DOMAIN seq :
    seq[i] = p /\ Count(p, SubSeq(seq, 1, i)) = k

\* same elements with the same multiplicities
SameBatch(a, b) ==
    Len(a) = Len(b) /\ \A p \in Range(a) \cup Range(b) : Count(p, a) = Count(p, b)

\* C1: TableBase::new fails with InvalidTableError whenever some body row's
\* length differs from the head's, and otherwise succeeds keeping head, body and
\* border thickness as given.
C1_TableBaseNew ==
    table_base.status # "none" =>
        IF \E r \in DOMAIN body : Len(body[r]) # Len(head)
        THEN table_base.status = "InvalidTableError"
        ELSE /\ table_base.status = "Ok"
             /\ table_base.head = head
             /\ table_base.body = body
             /\ table_base.border_width = border_width

\* C1 witness: a table with a row longer than the head has been refused
C1_Witness ==
    /\ table_base.status = "InvalidTableError"
    /\ \E r \in DOMAIN body : Len(body[r]) > Len(head)

\* C2: find_optical_dimension returns a pair of the highest frequency when that
\* frequency exceeds 1, and the size of an image of the largest width + height
\* when it is 1; the two batches of the specification give (200,200) and (300,300).
C2_Inference ==
    fod.called =>
        LET hc == HighestCount(origin_images)
            d == fod.dimension
        IN /\ hc > 1 => Count(d, origin_images) = hc
           /\ hc = 1 =>
                /\ d \in Range(origin_images)
                /\ \A q \in Range(origin_images) : q[1] + q[2] <= d[1] + d[2]
           /\ SameBatch(origin_images,
                        <<<<100, 100>>, <<200, 200>>, <<200, 200>>, <<200, 200>>,
                          <<300, 300>>>>) => d = <<200, 200>>
           /\ SameBatch(origin_images, <<<<100, 100>>, <<200, 200>>, <<300, 300>>>>)
                => d = <<300, 300>>

\* C2 witness: the first batch of the specification has been inferred
C2_Witness ==
    /\ fod.called
    /\ origin_images = <<<<100, 100>>, <<200, 200>>, <<200, 200>>, <<200, 200>>,
                         <<300, 300>>>>
    /\ fod.dimension = <<200, 200>>

\* C3 as claimed: when several pairs share the highest frequency, the pair
\* tracked as most frequent is the one of them seen first in the input.
C3_FirstSeenWins ==
    fod.called =>
        LET tied == MostFrequent(origin_images)
        IN Cardinality(tied) >= 2 =>
             /\ fod.st.most_frequent_dimension \in tied
             /\ \A q \in tied :
                    FirstIndex(fod.st.most_frequent_dimension, origin_images)
                        <= FirstIndex(q, origin_images)

\* C3 as amended: when several pairs share the highest frequency, the pair
\* tracked as most frequent is the one of them whose count reached that
\* frequency first (and it is the pair returned when the frequency exceeds 1).
C3_FirstToReachWins ==
    fod.called =>
        LET hc == HighestCount(origin_images)
            tied == MostFrequent(origin_images)
            m == fod.st.most_frequent_dimension
        IN Cardinality(tied) >= 2 =>
             /\ m \in tied
             /\ \A q \in tied :
                    KthIndex(m, origin_images, hc) <= KthIndex(q, origin_images, hc)
             /\ hc > 1 => fod.dimension = m

\* C3 witness: two pairs tie at a frequency above 1 and the returned pair is not
\* the one seen first
C3_Witness ==
    /\ fod.called
    /\ HighestCount(origin_images) > 1
    /\ Cardinality(MostFrequent(origin_images)) >= 2
    /\ \E q \in MostFrequent(origin_images) :
          FirstIndex(q, origin_images) < FirstIndex(fod.dimension, origin_images)

\* the least number of rows of `column` cells that hold n images
CeilRows(n, column) == CHOOSE r \in 0..n :
    r * column >= n /\ \A q \in 0..(r - 1) : q * column < n

\* C4: for every image count n, column count c >= 1, padding p and member size
\* (w, h) the bundled canvas is c*(w+p) wide and ceil(n/c)*(h+p) high; 5 images,
\* column 2, padding 20 and 100x150 members give 3 rows and a 240x510 canvas.
C4_CanvasSize ==
    sizing_out.called =>
        LET i == sizing_in
            g == sizing_out.g
        IN /\ g.row = CeilRows(i.n, i.column)
           /\ g.bundled_image_canvas_width = i.column * (i.width + i.padding)
           /\ g.bundled_image_canvas_height
                = CeilRows(i.n, i.column) * (i.height + i.padding)
           /\ (i.n = 5 /\ i.column = 2 /\ i.padding = 20 /\ i.width = 100
                 /\ i.height = 150)
                => /\ g.row = 3
                   /\ g.bundled_image_canvas_width = 240
                   /\ g.bundled_image_canvas_height = 510

\* C4 witness: the example of the specification has been computed
C4_Witness ==
    /\ sizing_out.called
    /\ sizing_in = [n |-> 5, column |-> 2, padding |-> 20, width |-> 100, height |-> 150]
    /\ sizing_out.g.bundled_image_canvas_width = 240
    /\ sizing_out.g.bundled_image_canvas_height = 510

\* the canvas rectangle compose task i writes
Rect(i) == PasteRect(i, images[i], geometry, options.column)

\* the canvas after pasting images 1..k one after the other, in index order
RECURSIVE InOrderCanvas(_)
InOrderCanvas(k) ==
    IF k = 0
    THEN BlankCanvas(geometry.bundled_image_canvas_width, geometry.full_canvas_height)
    ELSE copy_from(InOrderCanvas(k - 1), k, Rect(k))

\* C5: the canvas rectangles written by the copies of two different images
\* never overlap, whatever batch the pipeline accepted.
C5_DisjointWrites ==
    \A i \in DOMAIN handles : \A j \in DOMAIN handles :
        (i # j /\ handles[i] = "ok" /\ handles[j] = "ok")
            => Rect(i) \cap Rect(j) = {}

\* C6: the canvas a successful pipeline encodes is the same for every order in
\* which the compose tasks acquired the lock: it is the canvas the in-order
\* composition gives, with the caption or the table drawn above it.
C6_OrderIndependent ==
    result.status = "Ok" =>
        result.bytes =
            IF kind = "text"
            THEN draw_text(InOrderCanvas(Len(images)), text,
                           geometry.bundled_image_canvas_width, geometry.y)
            ELSE IF kind \in {"table", "append"}
            THEN draw_table(InOrderCanvas(Len(images)), overlay,
                            geometry.bundled_image_canvas_width, geometry.y,
                            IF kind = "append" THEN Ink ELSE Gray)
            ELSE InOrderCanvas(Len(images))

\* C7: when a compose task reports failure, the orchestrating call returns the
\* failure only once every spawned task has finished and been awaited.
C7_ErrorAfterAllAwaited ==
    (pc = "returned" /\ result.status = "ImageProcessError" /\ handles # << >>)
        => /\ \A i \in DOMAIN handles : HandleFinished(handles[i])
           /\ joined + 1 >= Len(handles)

\* C8: the canvas is read for encoding only after every compose task has
\* completed and released the lock, and nothing writes the canvas afterwards
\* (add_table spawns no compose task: it copies its one image itself).
C8_EncodeAfterCompose ==
    /\ (pc \in {"overlay", "encode"} \/ result.status = "Ok")
        => /\ kind # "append" => Len(handles) = Len(buffers)
           /\ \A i \in DOMAIN handles : handles[i] = "ok"
           /\ lock = Free
    /\ result.status = "Ok" => result.bytes = image_buf

\* C8 witness: a canvas composed by at least two tasks has been encoded
C8_Witness ==
    /\ result.status = "Ok"
    /\ Len(handles) >= 2
    /\ \E p \in DOMAIN result.bytes : result.bytes[p] = 2

\* C9: in the caption pipeline, a caption whose pixel width (0.5 per ASCII
\* character, 1.0 per other character, times the font size) exceeds the bundled
\* canvas width yields InvalidTextError: no canvas is allocated, no image returned.
C9_CaptionTooWide ==
    LET W == geometry.bundled_image_canvas_width
    IN (kind = "text" /\ CharsHalves(text) * FontSize(W) > 2 * W * Scale)
         => /\ pc = "returned"
            /\ result.status = "InvalidTextError"
            /\ result.bytes = << >>
            /\ image_buf = << >>
            /\ handles = << >>

\* C9 witness: a caption of 75 ASCII characters has been refused
C9_Witness ==
    /\ kind = "text"
    /\ text = Rep(97, 75)
    /\ geometry.bundled_image_canvas_width > 0
    /\ result.status = "InvalidTextError"

\* the geometry of the two tables agrees
SameTableGeometry(a, b) ==
    /\ table_width(a) = table_width(b)
    /\ (~table_height_panics(a) /\ ~table_height_panics(b))
         => table_height(a) = table_height(b)

\* C10 as claimed: create_table_image and add_table build tables of identical
\* table_width() and table_height() from the same TableSpec, for every image
\* handed to add_table.
C10_SameGeometry ==
    (rendered.built /\ appended.built)
        => SameTableGeometry(rendered.table, appended.table)

\* C10 as amended: they build tables of identical table_width() and
\* table_height() when the image handed to add_table is 960 pixels wide, the
\* canvas width create_table_image sizes its font from.
C10_SameGeometryAt960 ==
    (rendered.built /\ appended.built /\ origin_image.w = TableCanvasWidth)
        => SameTableGeometry(rendered.table, appended.table)

\* C10 witness: a table with a body has been rendered and appended to a 960
\* pixel wide image
C10_Witness ==
    /\ rendered.status = "Ok"
    /\ appended.status = "Ok"
    /\ origin_image.w = TableCanvasWidth
    /\ Len(body) >= 1
    /\ table_width(rendered.table) = table_width(appended.table)

\* every cell of a table, head and body
Cells(t) ==
    Range(t.head) \cup UNION {Range(t.body[r]) : r \in DOMAIN t.body}

\* C11: the text pixel-length of a string is the font size times the sum of 0.5
\* per ASCII character and 1.0 per other character, odd ASCII counts included.
C11_TextLen ==
    rendered.built =>
        \A c \in Cells(rendered.table) :
            2 * c.text_len = CharsHalves(c.text) * FontSize(TableCanvasWidth)

\* the largest value of a non-empty finite set of numbers
Largest(S) == CHOOSE m \in S : \A x \in S : x <= m

\* the longest text of column i of the TableSpec, in whole characters
ColumnChars(i) ==
    Largest({calc_chars_len(head[i])}
            \cup {calc_chars_len(body[r][i]) : r \in DOMAIN body})

\* the width create_table_image gives column i of the TableSpec
ColumnWidth(i) ==
    LET font_size == FontSize(TableCanvasWidth)
    IN CellPaddingX(font_size) * 2 + border_width * Scale
       + font_size * ColumnChars(i)

\* C12 as claimed: create_table_image renders onto a canvas 960 pixels wide,
\* whatever the TableSpec.
C12_FixedWidth ==
    rendered.status = "Ok" => rendered.canvas_width = TableCanvasWidth

\* C12 as amended: create_table_image renders onto a canvas as wide as the
\* table plus the padding on both sides, rounded up to whole pixels, where the
\* padding and the font size (hence the column widths) derive from a nominal
\* width of 960 pixels.
C12_TableWidthPlusPadding ==
    rendered.status = "Ok" =>
        rendered.canvas_width =
            CeilPx(SumWidth([i \in DOMAIN head |-> [width |-> ColumnWidth(i)]])
                   + border_width * Scale
                   + Padding(TableCanvasWidth) * 2)

\* C12 witness: a table of two columns has been rendered on a canvas narrower
\* than 960 pixels
C12_Witness ==
    /\ rendered.status = "Ok"
    /\ Len(head) = 2
    /\ rendered.canvas_width < TableCanvasWidth

\* the images whose resize task has run and whose decoded height differed from
\* the target height
Resized ==
    {i \in DOMAIN resize_handles :
        resize_handles[i] = "ok" /\ buffers[i].h # geometry.height}

ClaimedCorner(i) ==
    LET image_height == images[i][2]
        image_h == geometry.height
        pad == IF image_height <= image_h THEN (image_h - image_height) \div 2 ELSE 0
        cell_w == geometry.width + options.padding
        cell_h == geometry.height + options.padding
    IN <<((i - 1) % options.column) * cell_w,
         ((i - 1) \div options.column) * cell_h + pad + geometry.y>>

\* the rectangle of the size of image i whose top-left corner is c
RectAt(i, c) ==
    (c[1]..(c[1] + images[i][1] - 1)) \X (c[2]..(c[2] + images[i][2] - 1))

\* C14: the image at index i is pasted with its top-left corner at
\* x = (i mod column_count)*cell_w and y = (i div column_count)*cell_h + pad
\* + y_offset, pad = (image_h - image_height) div 2 if image_height <= image_h
\* and 0 otherwise: the pixels copied from image i lie in the rectangle at that
\* corner, and each pixel of the rectangle holds image i or a later copy.
C14_PastePosition ==
    \A i \in DOMAIN handles :
        handles[i] = "ok" =>
            LET R == RectAt(i, ClaimedCorner(i))
            IN /\ R \subseteq DOMAIN image_buf
               /\ \A p \in DOMAIN image_buf : image_buf[p] = i => p \in R
               /\ \A p \in R :
                     \/ image_buf[p] = i
                     \/ \E j \in DOMAIN handles :
                           j # i /\ handles[j] = "ok" /\ image_buf[p] = j

\* C14 witness: with two columns the second and third images have been pasted,
\* the third one shifted down inside its cell
C14_Witness ==
    /\ Len(handles) = 3
    /\ options.column = 2
    /\ handles[2] = "ok"
    /\ handles[3] = "ok"
    /\ geometry.height - images[3][2] >= 2
    /\ image_buf[ClaimedCorner(3)] = 3

\* twice the longest text of column i of the TableSpec by the heuristic of 0.5
\* per ASCII character and 1.0 per other character
ColumnHalves(i) ==
    Largest({CharsHalves(head[i])}
            \cup {CharsHalves(body[r][i]) : r \in DOMAIN body})

\* C15: in the Table returned by build, every cell of column i has width
\* cell_padding_x*2 + border + font_point_size*max(textLen over head[i] and
\* all body[r][i]), textLen being the heuristic of 0.5 per ASCII character and
\* 1.0 per other character; every cell has the height cell_padding_y*2 +
\* font_point_size + border; every cell is at least as wide as its own text.
C15_CellGeometry ==
    rendered.built =>
        LET t == rendered.table
            font_size == FontSize(TableCanvasWidth)
            border == border_width * Scale
            rows == <<t.head>> \o t.body
        IN \A r \in DOMAIN rows : \A i \in DOMAIN rows[r] :
              /\ 2 * rows[r][i].width =
                     2 * (CellPaddingX(font_size) * 2 + border)
                         + font_size * ColumnHalves(i)
              /\ rows[r][i].height = CellPaddingY(font_size) * 2 + font_size + border
              /\ 2 * rows[r][i].width >= font_size * CharsHalves(rows[r][i].text)

\* C16: for every TableSpec accepted by construction, an empty head or an empty
\* body included, build followed by table_width() and table_height() completes
\* without a runtime fault, with table_width = sum of head cell widths + border
\* and table_height = head row height + sum of body row heights + border.
C16_NoFault ==
    rendered.built =>
        LET t == rendered.table
        IN /\ rendered.status # "panic"
           /\ table_width(t) = SumWidth(t.head) + border_width * Scale
           /\ table_height(t) =
                  t.head[1].height + Len(t.body) * t.head[1].height
                      + border_width * Scale

\* the sum of the widths of the first k cells of a row
WidthBefore(cells, k) == SumWidth(SubSeq(cells, 1, k))

\* C17: text_top_left_position returns exactly columns*(1+rows) tuples, head
\* cells first and then body cells row by row in column order; for each cell,
\* left = cell_left + cell_width/2 - text_pixel_len/2 where the first cell_left
\* of every row is canvas_width/2 - table_width/2 and each next cell_left adds
\* the previous cell's width, and top = row_top + cell_padding_y + border where
\* row_top is padding for the head and padding + (r+1)*row_height for body row
\* r (counted from 0).
C17_TextPositions ==
    rendered.status \in {"Ok", "overflow"} =>
        LET t == rendered.table
            columns == Len(t.head)
            rows == <<t.head>> \o t.body
            padding == Padding(TableCanvasWidth)
            cell_padding_y == CellPaddingY(FontSize(TableCanvasWidth))
            border == border_width * Scale
            canvas_width == rendered.canvas_width * Scale
            row_height == t.head[1].height
        IN /\ Len(rendered.texts) = columns * (1 + Len(t.body))
           /\ \A r \in DOMAIN rows : \A k \in 1..columns :
                 LET pos == rendered.texts[(r - 1) * columns + k]
                     cell == rows[r][k]
                     row_top == padding + (r - 1) * row_height
                 IN /\ pos[1] = row_top + cell_padding_y + border
                    /\ 2 * pos[2] =
                           (canvas_width - table_width(t))
                               + 2 * WidthBefore(rows[r], k - 1)
                               + cell.width - cell.text_len
                    /\ pos[3] = cell.text

\* C17 witness: the positions of a table of two columns and two body rows,
\* with a text shorter than its column, have been computed
C17_Witness ==
    /\ rendered.status = "Ok"
    /\ Len(head) = 2
    /\ Len(body) = 2
    /\ Len(rendered.texts) = 6
    /\ rendered.texts[6][1] > rendered.texts[4][1]
    /\ rendered.texts[6][2] > rendered.texts[5][2]
    /\ \E k \in 1..6 : Len(rendered.texts[k][3]) = 3

\* the segments of a list that satisfy a test on their end points
Horizontal(segs) == {k \in DOMAIN segs : segs[k][1][2] = segs[k][2][2]}
Vertical(segs) == {k \in DOMAIN segs : segs[k][1][1] = segs[k][2][1]}

\* C18: for every border thickness N >= 0 and a table with C columns and R
\* body rows, table_line_position returns exactly N top + N bottom + N*C
\* column-separator + N*R body-row-boundary + N right-edge segments, N*(C+R+3)
\* in total, computed without arithmetic underflow or fault.
C18_LineCount ==
    (rendered.built /\ rendered.status # "panic") =>
        LET N == border_width
            C == Len(head)
            R == Len(body)
        IN /\ rendered.status # "overflow"
           /\ Len(rendered.lines) = N * (C + R + 3)
           /\ Cardinality(Horizontal(rendered.lines)) = N + N + N * R
           /\ Cardinality(Vertical(rendered.lines)) = N * C + N

\* compose has been handed images that all have exactly the target size
AllAtTargetSize ==
    /\ handles # << >>
    /\ \A i \in DOMAIN images : images[i] = <<geometry.width, geometry.height>>

\* C20: when every image handed to compose has exactly the target size, every
\* paste rectangle lies inside the canvas and at or below row y_offset, no copy
\* fails, and compose leaves every pixel of the reserved top strip at its
\* background value.
C20_StripUntouched ==
    AllAtTargetSize =>
        /\ \A i \in DOMAIN handles :
              /\ Rect(i) \subseteq DOMAIN image_buf
              /\ \A p \in Rect(i) : p[2] >= geometry.y
              /\ handles[i] # "err"
        /\ pc \in {"compose_join", "overlay"} =>
              \A p \in DOMAIN image_buf : p[2] < geometry.y => image_buf[p] = White

\* C20 witness: three images of the target size have been composed in two
\* columns below a reserved strip
C20_Witness ==
    /\ AllAtTargetSize
    /\ pc = "overlay"
    /\ geometry.y >= 1
    /\ options.column = 2
    /\ Len(handles) = 3
    /\ \A i \in DOMAIN handles : handles[i] = "ok"

\* the width check of the running pipeline fails: the caption or the table,
\* with the padding on both sides, is wider than the bundled canvas
\* (with_text, with_table), or the table is wider than the image (add_table)
WidthCheckFails ==
    LET W == options.column * (geometry.width + options.padding)
    IN /\ pc # "start"
       /\ ~load_fails(buffers)
       /\ \/ /\ kind = "text"
             /\ CeilPx(calc_chars_len(text) * FontSize(W) + Padding(W) * 2) > W
          \/ /\ kind = "table"
             /\ CeilPx(table_width(BuildFor(table_spec, W)) + Padding(W) * 2) > W
          \/ /\ kind = "append"
             /\ table_width(BuildFor(table_spec, buffers[1].w)) > buffers[1].w * Scale

\* the canvas exists, a compose task has been spawned, or a table's texts and
\* lines have been drawn
CanvasTouched ==
    image_buf # << >> \/ handles # << >> \/ overlay # NoOutcome

\* C19: in with_table, with_text and add_table, when the table's or caption's
\* width check fails, InvalidTableError / InvalidTextError is returned before
\* the output canvas is allocated, before any compose task is spawned and
\* before any text or line is drawn.
C19_RefusedBeforeDrawing ==
    /\ WidthCheckFails => ~CanvasTouched
    /\ (WidthCheckFails /\ pc = "returned") =>
           result.status = IF kind = "text" THEN "InvalidTextError"
                           ELSE "InvalidTableError"
    /\ result.status \in {"InvalidTableError", "InvalidTextError"} =>
           WidthCheckFails /\ ~CanvasTouched

\* C19 witness: with_table has refused a table after resizing two images
C19_Witness ==
    /\ kind = "table"
    /\ result.status = "InvalidTableError"
    /\ Len(resize_handles) = 2
    /\ \A i \in DOMAIN resize_handles : resize_handles[i] = "ok"
    /\ ~CanvasTouched

\* the sizes seen most often in the long batch scanned so far
ScanMostFrequent ==
    {d \in ScanSizes : \A q \in ScanSizes : scan.seen[q] <= scan.seen[d]}

\* C21: the 8-bit frequency counter of find_optical_dimension never overflows
\* or wraps: every counter holds the true number of images of its size, and
\* the most frequent pair is returned also for a batch with 256 or more images
\* of one size.
C21_CounterNeverWraps ==
    /\ scan.status # "overflow"
    /\ \A d \in DOMAIN fod.st.dimension_map : fod.st.dimension_map[d] = scan.seen[d]
    /\ (scan.status = "returned" /\ \E d \in ScanSizes : scan.seen[d] > 1)
           => fod.dimension \in ScanMostFrequent

====
